---- MODULE Spec2Model ----
(***************************************************************************)
(* Model of server.js: the POST /upload handler of the desqueeze backend.  *)
(*                                                                         *)
(* A JavaScript string is a sequence of one-character strings.  A          *)
(* JavaScript number is a record [k, v]: k = "num" with v the value in     *)
(* hundredths, k = "nan", k = "inf" with v the sign, or k = "null" for     *)
(* null.  Inputs are chosen with at most two fractional digits and no      *)
(* exponent part, where this representation is exact.                      *)
(***************************************************************************)
EXTENDS Integers, Sequences, FiniteSets

\* ------------------------------------------------------------ JS values

Num(n) == [k |-> "num", v |-> n]

Whole(n) == Num(n * 100)

NaN == [k |-> "nan", v |-> 0]

Infinity == [k |-> "inf", v |-> 1]

Null == [k |-> "null", v |-> 0]

\* a form field that was not sent (req.body.x is undefined)
Undefined == <<"undefined">>

DigitChars == <<"0", "1", "2", "3", "4", "5", "6", "7", "8", "9">>

DigitVal(c) == (CHOOSE i \in 1..10 : DigitChars[i] = c) - 1

Drop(s, n) == SubSeq(s, n + 1, Len(s))

StartsWith(s, p) == Len(s) >= Len(p) /\ SubSeq(s, 1, Len(p)) = p

\* number of leading characters of s that are in Chars
RECURSIVE RunLen(_, _)
RunLen(s, Chars) ==
  IF s # <<>> /\ Head(s) \in Chars THEN 1 + RunLen(Tail(s), Chars) ELSE 0

DigitSet == {DigitChars[i] : i \in 1..10}

WhiteSet == {" ", "\n", "\t", "\r"}

TrimStart(s) == Drop(s, RunLen(s, WhiteSet))

RECURSIVE TrimEnd(_)
TrimEnd(s) ==
  IF s # <<>> /\ s[Len(s)] \in WhiteSet THEN TrimEnd(SubSeq(s, 1, Len(s) - 1)) ELSE s

\* String.prototype.trim
Trim(s) == TrimEnd(TrimStart(s))

\* value of a run of decimal digits
RECURSIVE DigitsVal(_)
DigitsVal(s) ==
  IF s = <<>> THEN 0 ELSE DigitsVal(SubSeq(s, 1, Len(s) - 1)) * 10 + DigitVal(s[Len(s)])

\* the first two fractional digits of a digit run, as hundredths
FracVal(s) ==
  (IF Len(s) >= 1 THEN DigitVal(s[1]) * 10 ELSE 0) + (IF Len(s) >= 2 THEN DigitVal(s[2]) ELSE 0)

StrInfinity == <<"I", "n", "f", "i", "n", "i", "t", "y">>

\* the unsigned part of parseFloat: Infinity, or digits [. digits]
ParseUnsigned(s, sign) ==
  LET ni == RunLen(s, DigitSet)
      r  == Drop(s, ni)
      nf == IF r # <<>> /\ Head(r) = "." THEN RunLen(Tail(r), DigitSet) ELSE 0
  IN  IF StartsWith(s, StrInfinity) THEN [k |-> "inf", v |-> sign]
      ELSE IF ni = 0 /\ nf = 0 THEN NaN
      ELSE Num(sign * (DigitsVal(SubSeq(s, 1, ni)) * 100
                        + (IF nf > 0 THEN FracVal(SubSeq(Tail(r), 1, nf)) ELSE 0)))

\* parseFloat(string)
parseFloat(str) ==
  LET s == TrimStart(str)
  IN  IF s # <<>> /\ Head(s) = "-" THEN ParseUnsigned(Tail(s), -1)
      ELSE IF s # <<>> /\ Head(s) = "+" THEN ParseUnsigned(Tail(s), 1)
      ELSE ParseUnsigned(s, 1)

\* parseInt(string, 10)
parseInt(str) ==
  LET s    == TrimStart(str)
      neg  == s # <<>> /\ Head(s) = "-"
      body == IF s # <<>> /\ Head(s) \in {"-", "+"} THEN Tail(s) ELSE s
      n    == RunLen(body, DigitSet)
  IN  IF n = 0 THEN NaN
      ELSE Whole((IF neg THEN -1 ELSE 1) * DigitsVal(SubSeq(body, 1, n)))

\* isFinite(number)
isFinite(x) == x.k = "num"

\* Math.max(a, b), Math.min(a, b)
MathMax(a, b) ==
  IF a.k = "nan" \/ b.k = "nan" THEN NaN
  ELSE IF a.k = "inf" THEN (IF a.v > 0 THEN a ELSE b)
  ELSE IF b.k = "inf" THEN (IF b.v > 0 THEN b ELSE a)
  ELSE IF a.v >= b.v THEN a ELSE b

MathMin(a, b) ==
  IF a.k = "nan" \/ b.k = "nan" THEN NaN
  ELSE IF a.k = "inf" THEN (IF a.v < 0 THEN a ELSE b)
  ELSE IF b.k = "inf" THEN (IF b.v < 0 THEN b ELSE a)
  ELSE IF a.v <= b.v THEN a ELSE b

\* JS truthiness of a string or undefined, as in `x || "1"`
FalsyStr(s) == s = Undefined \/ s = <<>>

OrElse(s, dflt) == IF FalsyStr(s) THEN dflt ELSE s

\* JS truthiness of a number or null
Truthy(x) == x.k = "inf" \/ (x.k = "num" /\ x.v # 0)

RECURSIVE NatToStr(_)
NatToStr(n) ==
  IF n < 10 THEN <<DigitChars[n + 1]>> ELSE NatToStr(n \div 10) \o <<DigitChars[(n % 10) + 1]>>

\* String(number): shortest decimal form
String(x) ==
  IF x.k = "nan" THEN <<"N", "a", "N">>
  ELSE IF x.k = "null" THEN <<"n", "u", "l", "l">>
  ELSE IF x.k = "inf" THEN (IF x.v < 0 THEN <<"-">> ELSE <<>>) \o StrInfinity
  ELSE LET a == IF x.v < 0 THEN 0 - x.v ELSE x.v
           f == a % 100
       IN  (IF x.v < 0 THEN <<"-">> ELSE <<>>)
           \o NatToStr(a \div 100)
           \o (IF f = 0 THEN <<>>
               ELSE IF f % 10 = 0 THEN <<".", DigitChars[(f \div 10) + 1]>>
               ELSE <<".", DigitChars[(f \div 10) + 1], DigitChars[(f % 10) + 1]>>)

\* ------------------------------------------------- the handler's pure steps

\* index of the last "." of s, 0 if none
RECURSIVE LastDot(_)
LastDot(s) ==
  IF s = <<>> THEN 0 ELSE IF s[Len(s)] = "." THEN Len(s) ELSE LastDot(SubSeq(s, 1, Len(s) - 1))

\* originalname.replace(/\.[^.]+$/, "")
StripExt(name) ==
  LET i == LastDot(name)
  IN  IF i > 0 /\ i < Len(name) THEN SubSeq(name, 1, i - 1) ELSE name

\* Math.max(1, parseFloat(req.body.factor || "1"))
Factor(field) == MathMax(Whole(1), parseFloat(OrElse(field, <<"1">>)))

StrCopy == <<"c", "o", "p", "y">>

\* x || null, for a number x
OrNull(n) == IF Truthy(n) THEN n ELSE Null

\* req.body.fps === "copy" ? null : parseInt(req.body.fps || "0", 10) || null
Fps(field) == IF field = StrCopy THEN Null ELSE OrNull(parseInt(OrElse(field, <<"0">>)))

DefaultBitrate == <<"8", "0", "0", "0", "0", "0", "0">>

\* parseInt(req.body.bitrate || "8000000", 10)
Bitrate(field) == parseInt(OrElse(field, DefaultBitrate))

\* `${origName}_desq_${Date.now()}.mp4`
OutBase(origName, stamp) ==
  origName \o <<"_", "d", "e", "s", "q", "_">> \o String(Whole(stamp)) \o <<".", "m", "p", "4">>

\* `scale=trunc(iw*${factor}/2)*2:ih,setsar=1`
Vf(factor) ==
  <<"s", "c", "a", "l", "e", "=", "t", "r", "u", "n", "c", "(", "i", "w", "*">>
  \o String(factor)
  \o <<"/", "2", ")", "*", "2", ":", "i", "h", ",", "s", "e", "t", "s", "a", "r", "=", "1">>

\* the temporary path multer gave the upload of job j (a fresh random name)
InFile(j) == <<"t", "m", "p">> \o NatToStr(j)

\* path.join(downloadsDir, outBase)
OutPath(outBase) == <<"d", "o", "w", "n", "l", "o", "a", "d", "s", "/">> \o outBase

OptR == <<"-", "r">>

OptBv == <<"-", "b", ":", "v">>

OptVf == <<"-", "v", "f">>

\* the argument list handed to spawn(ffmpegPath, args)
Args(inFile, fps, bitrate, vf, outPath) ==
  <<  <<"-", "y">>, <<"-", "i">>, inFile >>
  \o (IF Truthy(fps) THEN <<OptR, String(fps)>> ELSE <<>>)
  \o << <<"-", "c", ":", "v">>, <<"l", "i", "b", "x", "2", "6", "4">>, OptBv, String(bitrate),
        <<"-", "p", "i", "x", "_", "f", "m", "t">>, <<"y", "u", "v", "4", "2", "0", "p">>,
        OptVf, vf,
        <<"-", "c", ":", "a">>, StrCopy,
        <<"-", "m", "o", "v", "f", "l", "a", "g", "s">>, <<"f", "a", "s", "t", "s", "t", "a", "r", "t">>,
        outPath >>

StrTime == <<"t", "i", "m", "e", "=">>

NoMatch == [ok |-> FALSE, h |-> <<>>, m |-> <<>>, s |-> <<>>]

\* /time=(\d+):(\d+):([\d.]+)/ anchored at the start of r
MatchAt(r) ==
  LET a  == Drop(r, 5)
      nh == RunLen(a, DigitSet)
      b  == Drop(a, nh)
      c  == IF b = <<>> THEN <<>> ELSE Tail(b)
      nm == RunLen(c, DigitSet)
      d  == Drop(c, nm)
      e  == IF d = <<>> THEN <<>> ELSE Tail(d)
      ns == RunLen(e, DigitSet \cup {"."})
  IN  IF /\ StartsWith(r, StrTime)
         /\ nh > 0 /\ b # <<>> /\ Head(b) = ":"
         /\ nm > 0 /\ d # <<>> /\ Head(d) = ":"
         /\ ns > 0
      THEN [ok |-> TRUE, h |-> SubSeq(a, 1, nh), m |-> SubSeq(c, 1, nm), s |-> SubSeq(e, 1, ns)]
      ELSE NoMatch

\* s.match(/time=(\d+):(\d+):([\d.]+)/): the leftmost match
RECURSIVE MatchTime(_)
MatchTime(s) ==
  IF s = <<>> THEN NoMatch
  ELSE IF MatchAt(s).ok THEN MatchAt(s)
  ELSE MatchTime(Tail(s))

\* a + b and a * n on numbers that are finite or NaN
Add(a, b) == IF a.k = "nan" \/ b.k = "nan" THEN NaN ELSE Num(a.v + b.v)

Times(a, n) == IF a.k = "nan" THEN NaN ELSE Num(a.v * n)

\* (parseInt(m[1],10)*3600) + (parseInt(m[2],10)*60) + parseFloat(m[3])
Elapsed(m) == Add(Add(Times(parseInt(m.h), 3600), Times(parseInt(m.m), 60)), parseFloat(m.s))

\* Math.floor((t / dur) * 100), for t >= 0 and dur >= 0 (x / 0 is Infinity, 0 / 0 is NaN)
\* with the quotient taken exactly (no rounding of the double t / dur)
FloorPct(t, dur) ==
  IF t.k = "nan" THEN NaN
  ELSE IF dur.v = 0 THEN (IF t.v = 0 THEN NaN ELSE Infinity)
  ELSE Whole((t.v * 100) \div dur.v)

\* the percentage without Math.min(100, ...)
PctNoUpperClamp(t, dur) == MathMax(Whole(0), FloorPct(t, dur))

\* Math.max(0, Math.min(100, Math.floor((t / dur) * 100)))
Pct(t, dur) == MathMax(Whole(0), MathMin(Whole(100), FloorPct(t, dur)))

\* dur >= 0 in place of dur > 0
PositiveOrZero(n) == (n.k = "num" /\ n.v >= 0) \/ (n.k = "inf" /\ n.v > 0)

\* dur > 0
Positive(n) == (n.k = "num" /\ n.v > 0) \/ (n.k = "inf" /\ n.v > 0)

\* a !== b on numbers
StrictNeq(a, b) == a.k = "nan" \/ b.k = "nan" \/ a # b

\* isFinite(sec) ? sec : 0, on parseFloat(out.trim())
ProbeValue(out) ==
  LET sec == parseFloat(Trim(out)) IN IF isFinite(sec) THEN sec ELSE Whole(0)

\* encodeURIComponent, on the characters file names are drawn from
RECURSIVE encodeURIComponent(_)
encodeURIComponent(s) ==
  IF s = <<>> THEN <<>>
  ELSE (IF Head(s) = " " THEN <<"%", "2", "0">> ELSE <<Head(s)>>) \o encodeURIComponent(Tail(s))

\* `${req.protocol}://${req.get("host")}/downloads/${encodeURIComponent(outBase)}`
PublicUrl(protocol, host, outBase) ==
  protocol \o <<":", "/", "/">> \o host
  \o <<"/", "d", "o", "w", "n", "l", "o", "a", "d", "s", "/">> \o encodeURIComponent(outBase)

\* ------------------------------------------------------------- the bounds

\* stderr 'data' events delivered per encoder
MaxChunks == 2

\* stdout 'data' events delivered per probe
MaxProbeChunks == 1

\* the latest value Date.now() returns
MaxClock == 1

\* the longest duration, in seconds, ffprobe reports to the percentage check
MaxDur == 5

\* the largest elapsed time, in seconds, ffmpeg reports to the percentage check
MaxElapsed == 7

\* the exit code 'close' carries after a failed spawn (-ENOENT)
SpawnErrno == Whole(-2)

\* ------------------------------------------------------------- the state

\* the requests that can be in flight at once
Jobs == {1, 2}

VARIABLES
  now,        \* the last value Date.now() returned
  req,        \* req[j]: the request as multer hands it to the handler
  pc,         \* pc[j]: "idle", "await" (suspended at await probeDuration),
              \*        "listening" (encoder handlers registered), "caught" (catch block ran)
  scope,      \* scope[j]: the handler's local variables
  probe,      \* probe[j]: the ffprobe child process and the closure of probeDuration
  promise,    \* promise[j]: the promise probeDuration returned
  ff,         \* ff[j]: the ffmpeg child process
  res,        \* res[j]: the HTTP response
  unlinks,    \* unlinks[j]: how many times fs.unlink(req.file.path) was called
  tmp,        \* the jobs whose temporary upload file is on disk
  downloads   \* the downloads directory: records [name, by], by the job that last wrote name

vars == <<now, req, pc, scope, probe, promise, ff, res, unlinks, tmp, downloads>>

NoReq ==
  [file |-> FALSE, originalname |-> <<>>, factor |-> Undefined, fps |-> Undefined,
   bitrate |-> Undefined, protocol |-> <<>>, host |-> <<>>]

NoScope ==
  [origName |-> <<>>, factor |-> Null, fps |-> Null, bitrate |-> Null, stamp |-> 0,
   outBase |-> <<>>, dur |-> Null, args |-> <<>>, lastPct |-> Null]

NoChild == [st |-> "none", out |-> <<>>, n |-> 0, code |-> Null]

NoPromise == [state |-> "none", value |-> Null, calls |-> 0]

NewRes == [lines |-> <<>>, ended |-> 0, late |-> <<>>]

Init ==
  /\ now = 0
  /\ req = [j \in Jobs |-> NoReq]
  /\ pc = [j \in Jobs |-> "idle"]
  /\ scope = [j \in Jobs |-> NoScope]
  /\ probe = [j \in Jobs |-> NoChild]
  /\ promise = [j \in Jobs |-> NoPromise]
  /\ ff = [j \in Jobs |-> NoChild]
  /\ res = [j \in Jobs |-> NewRes]
  /\ unlinks = [j \in Jobs |-> 0]
  /\ tmp = {}
  /\ downloads = {}

\* ------------------------------------------------------------ the response

ProgressLine(pct) == [kind |-> "progress", text |-> String(pct)]

DownloadLine(url) == [kind |-> "download", text |-> url]

StatusDone == [kind |-> "status", text |-> <<"d", "o", "n", "e">>]

StatusError == [kind |-> "status", text |-> <<"e", "r", "r", "o", "r">>]

\* res.write(line): a write issued after res.end() is not part of the body
ResWrite(r, line) ==
  IF r.ended > 0 THEN [r EXCEPT !.late = Append(@, line)]
  ELSE [r EXCEPT !.lines = Append(@, line)]

\* res.end()
ResEnd(r) == [r EXCEPT !.ended = @ + 1]

\* res.write("status:error\n"); res.end();
FailResponse(r) == ResEnd(ResWrite(r, StatusError))

\* !code in place of code === 0: a null exit code (a signal) counts as success
CloseLinesFalsyCode(code, url) ==
  IF code \in {Whole(0), Null} THEN <<DownloadLine(url), StatusDone>> ELSE <<StatusError>>

\* the lines the 'close' handler writes for an exit code
CloseLines(code, url) ==
  IF code = Whole(0) THEN <<DownloadLine(url), StatusDone>> ELSE <<StatusError>>

RECURSIVE WriteAll(_, _)
WriteAll(r, lines) ==
  IF lines = <<>> THEN r ELSE WriteAll(ResWrite(r, Head(lines)), Tail(lines))

\* fs.unlink(req.file.path, () => {}) of job j
Unlink(j) ==
  /\ unlinks' = [unlinks EXCEPT ![j] = @ + 1]
  /\ tmp' = tmp \ {j}

\* the catch block without the inner try: with no req.file the unlink line
\* throws out of the catch block and nothing is written
CatchUnguarded(j, r) ==
  /\ IF r.file THEN Unlink(j) ELSE UNCHANGED <<unlinks, tmp>>
  /\ res' = IF r.file THEN [res EXCEPT ![j] = FailResponse(@)] ELSE res
  /\ pc' = [pc EXCEPT ![j] = "caught"]

\* the catch block: try { fs.unlink(req.file.path, ...) } catch {}; status:error; end
Catch(j, r) ==
  /\ IF r.file THEN Unlink(j) ELSE UNCHANGED <<unlinks, tmp>>
  /\ res' = [res EXCEPT ![j] = FailResponse(@)]
  /\ pc' = [pc EXCEPT ![j] = "caught"]

\* lines 77-86: the locals computed before the probe
Locals(j, r, t) ==
  [NoScope EXCEPT !.origName = StripExt(r.originalname),
                  !.factor = Factor(r.factor),
                  !.fps = Fps(r.fps),
                  !.bitrate = Bitrate(r.bitrate),
                  !.stamp = t,
                  !.outBase = OutBase(StripExt(r.originalname), t)]

\* ------------------------------------------------------------- the handler

\* a request without a file part: req.file is undefined and line 77 throws
UploadNoFile(j, r) ==
  /\ pc[j] = "idle"
  /\ ~r.file
  /\ req' = [req EXCEPT ![j] = r]
  /\ Catch(j, r)
  /\ UNCHANGED <<now, scope, probe, promise, ff, downloads>>

\* fs.mkdirSync(downloadsDir) throws
UploadMkdirThrows(j, r) ==
  /\ pc[j] = "idle"
  /\ r.file
  /\ req' = [req EXCEPT ![j] = r]
  /\ scope' = [scope EXCEPT ![j] = [Locals(j, r, 0) EXCEPT !.outBase = <<>>]]
  /\ Catch(j, r)
  /\ UNCHANGED <<now, probe, promise, ff, downloads>>

\* spawn(ffprobePath, ...) throws inside the promise executor: the promise is
\* rejected, the await throws, the catch block runs
UploadProbeThrows(j, r, t) ==
  /\ pc[j] = "idle"
  /\ r.file
  /\ t >= now
  /\ now' = t
  /\ req' = [req EXCEPT ![j] = r]
  /\ scope' = [scope EXCEPT ![j] = Locals(j, r, t)]
  /\ promise' = [promise EXCEPT ![j] = [state |-> "rejected", value |-> Null, calls |-> 0]]
  /\ Catch(j, r)
  /\ UNCHANGED <<probe, ff, downloads>>

\* lines 73-89: the handler runs up to await probeDuration(inFile); the probe
\* is spawned (started = TRUE) or its spawn fails asynchronously
Upload(j, r, t, started) ==
  /\ pc[j] = "idle"
  /\ r.file
  /\ t >= now
  /\ now' = t
  /\ req' = [req EXCEPT ![j] = r]
  /\ tmp' = tmp \cup {j}
  /\ scope' = [scope EXCEPT ![j] = Locals(j, r, t)]
  /\ probe' = [probe EXCEPT ![j] = [NoChild EXCEPT !.st = IF started THEN "running" ELSE "failing"]]
  /\ promise' = [promise EXCEPT ![j] = [state |-> "pending", value |-> Null, calls |-> 0]]
  /\ pc' = [pc EXCEPT ![j] = "await"]
  /\ UNCHANGED <<ff, res, unlinks, downloads>>

\* resolve(v): only the first call settles the promise
Resolve(p, v) ==
  IF p.state = "pending" THEN [state |-> "resolved", value |-> v, calls |-> p.calls + 1]
  ELSE [p EXCEPT !.calls = @ + 1]

\* p.stdout.on("data", d => (out += d.toString()))
ProbeStdout(j, d) ==
  /\ probe[j].st \in {"running", "exited"}
  /\ probe[j].n < MaxProbeChunks
  /\ probe' = [probe EXCEPT ![j].out = @ \o d, ![j].n = @ + 1]
  /\ UNCHANGED <<now, req, pc, scope, promise, ff, res, unlinks, tmp, downloads>>

\* the ffprobe process terminates with an exit code (null: killed by a signal)
ProbeExit(j, code) ==
  /\ probe[j].st = "running"
  /\ probe' = [probe EXCEPT ![j].st = "exited", ![j].code = code]
  /\ UNCHANGED <<now, req, pc, scope, promise, ff, res, unlinks, tmp, downloads>>

\* p.on("close", () => { ...; resolve(isFinite(sec) ? sec : 0) })
ProbeClose(j) ==
  /\ probe[j].st \in {"exited", "errored"}
  /\ probe' = [probe EXCEPT ![j].st = "closed"]
  /\ promise' = [promise EXCEPT ![j] = Resolve(@, ProbeValue(probe[j].out))]
  /\ UNCHANGED <<now, req, pc, scope, ff, res, unlinks, tmp, downloads>>

\* p.on("error", () => resolve(0)): the spawn failed; 'close' follows with the errno
ProbeError(j) ==
  /\ probe[j].st = "failing"
  /\ probe' = [probe EXCEPT ![j].st = "errored", ![j].code = SpawnErrno]
  /\ promise' = [promise EXCEPT ![j] = Resolve(@, Whole(0))]
  /\ UNCHANGED <<now, req, pc, scope, ff, res, unlinks, tmp, downloads>>

\* lines 89-103: the locals computed once the await has returned dur
Resumed(j, sc, dur) ==
  [sc EXCEPT !.dur = dur,
             !.args = Args(InFile(j), sc.fps, sc.bitrate, Vf(sc.factor), OutPath(sc.outBase)),
             !.lastPct = Whole(-1)]

\* the handler deleting the upload right after spawn(ffmpegPath, args), before
\* the encoder has read it
TranscodeThenUnlink(j, started) ==
  /\ pc[j] = "await"
  /\ promise[j].state = "resolved"
  /\ scope' = [scope EXCEPT ![j] = Resumed(j, @, promise[j].value)]
  /\ ff' = [ff EXCEPT ![j] = [NoChild EXCEPT !.st = IF started THEN "running" ELSE "failing"]]
  /\ pc' = [pc EXCEPT ![j] = "listening"]
  /\ Unlink(j)
  /\ UNCHANGED <<now, req, probe, promise, res, downloads>>

\* the handler without the await: the encoder is spawned while the promise may
\* still be pending, and dur is whatever the promise holds at that moment
TranscodeNoAwait(j, started) ==
  /\ pc[j] = "await"
  /\ scope' = [scope EXCEPT ![j] = Resumed(j, @, promise[j].value)]
  /\ ff' = [ff EXCEPT ![j] = [NoChild EXCEPT !.st = IF started THEN "running" ELSE "failing"]]
  /\ pc' = [pc EXCEPT ![j] = "listening"]
  /\ UNCHANGED <<now, req, probe, promise, res, unlinks, tmp, downloads>>

\* lines 89-143: the await returns, the encoder is spawned (started = TRUE) or
\* its spawn fails asynchronously, and the three handlers are registered
Transcode(j, started) ==
  /\ pc[j] = "await"
  /\ promise[j].state = "resolved"
  /\ scope' = [scope EXCEPT ![j] = Resumed(j, @, promise[j].value)]
  /\ ff' = [ff EXCEPT ![j] = [NoChild EXCEPT !.st = IF started THEN "running" ELSE "failing"]]
  /\ pc' = [pc EXCEPT ![j] = "listening"]
  /\ UNCHANGED <<now, req, probe, promise, res, unlinks, tmp, downloads>>

\* spawn(ffmpegPath, args) throws: the catch block runs
TranscodeThrows(j) ==
  /\ pc[j] = "await"
  /\ promise[j].state = "resolved"
  /\ scope' = [scope EXCEPT ![j] = [Resumed(j, @, promise[j].value) EXCEPT !.lastPct = Null]]
  /\ Catch(j, req[j])
  /\ UNCHANGED <<now, req, probe, promise, ff, downloads>>

\* the body of ff.stderr.on("data", buf => ...): the new lastPct and response
OnData(sc, r, buf) ==
  LET m   == MatchTime(buf)
      pct == Pct(Elapsed(m), sc.dur)
  IN  IF m.ok /\ Positive(sc.dur) /\ StrictNeq(pct, sc.lastPct)
      THEN [lastPct |-> pct, res |-> ResWrite(r, ProgressLine(pct))]
      ELSE [lastPct |-> sc.lastPct, res |-> r]

\* the stderr handler with lastPct declared once at module level (kept here in
\* the scope of job 1) in place of once per request
FfStderrSharedPct(j, buf) ==
  /\ pc[j] = "listening"
  /\ ff[j].st \in {"running", "exited"}
  /\ ff[j].n < MaxChunks
  /\ ff' = [ff EXCEPT ![j].n = @ + 1]
  /\ scope' = [scope EXCEPT ![1].lastPct =
                 OnData([scope[j] EXCEPT !.lastPct = scope[1].lastPct], res[j], buf).lastPct]
  /\ res' = [res EXCEPT ![j] =
               OnData([scope[j] EXCEPT !.lastPct = scope[1].lastPct], res[j], buf).res]
  /\ UNCHANGED <<now, req, pc, probe, promise, unlinks, tmp, downloads>>

\* ff.stderr.on("data", ...)
FfStderr(j, buf) ==
  /\ pc[j] = "listening"
  /\ ff[j].st \in {"running", "exited"}
  /\ ff[j].n < MaxChunks
  /\ ff' = [ff EXCEPT ![j].n = @ + 1]
  /\ scope' = [scope EXCEPT ![j].lastPct = OnData(scope[j], res[j], buf).lastPct]
  /\ res' = [res EXCEPT ![j] = OnData(scope[j], res[j], buf).res]
  /\ UNCHANGED <<now, req, pc, probe, promise, unlinks, tmp, downloads>>

\* the file at name is created or overwritten (-y) by job j
Overwrite(dir, name, j) == {f \in dir : f.name # name} \cup {[name |-> name, by |-> j]}

\* the ffmpeg process terminates; it has written its output file when it
\* exits with 0, and may have left a partial one otherwise
FfExit(j, code, wrote) ==
  /\ ff[j].st = "running"
  /\ code = Whole(0) => wrote
  /\ ff' = [ff EXCEPT ![j].st = "exited", ![j].code = code]
  /\ downloads' = IF wrote THEN Overwrite(downloads, scope[j].outBase, j) ELSE downloads
  /\ UNCHANGED <<now, req, pc, scope, probe, promise, res, unlinks, tmp>>

\* ff.on("error", ...): the spawn failed; 'close' follows with the errno
FfError(j) ==
  /\ pc[j] = "listening"
  /\ ff[j].st = "failing"
  /\ ff' = [ff EXCEPT ![j].st = "errored", ![j].code = SpawnErrno]
  /\ Unlink(j)
  /\ res' = [res EXCEPT ![j] = FailResponse(@)]
  /\ UNCHANGED <<now, req, pc, scope, probe, promise, downloads>>

\* the 'close' handler also removing the output of an encoder that failed
FfCloseRemovesPartial(j) ==
  /\ pc[j] = "listening"
  /\ ff[j].st \in {"exited", "errored"}
  /\ ff' = [ff EXCEPT ![j].st = "closed"]
  /\ Unlink(j)
  /\ res' = [res EXCEPT ![j] =
       ResEnd(WriteAll(@, CloseLines(ff[j].code,
                                     PublicUrl(req[j].protocol, req[j].host, scope[j].outBase))))]
  /\ downloads' = IF ff[j].code = Whole(0) THEN downloads
                  ELSE {f \in downloads : f.name # scope[j].outBase}
  /\ UNCHANGED <<now, req, pc, scope, probe, promise>>

\* ff.on("close", code => ...)
FfClose(j) ==
  /\ pc[j] = "listening"
  /\ ff[j].st \in {"exited", "errored"}
  /\ ff' = [ff EXCEPT ![j].st = "closed"]
  /\ Unlink(j)
  /\ res' = [res EXCEPT ![j] =
       ResEnd(WriteAll(@, CloseLines(ff[j].code,
                                     PublicUrl(req[j].protocol, req[j].host, scope[j].outBase))))]
  /\ UNCHANGED <<now, req, pc, scope, probe, promise, downloads>>

\* ------------------------------------------------------------- the inputs

NameMov == <<"a", ".", "m", "o", "v">>

NameMp4 == <<"a", ".", "m", "p", "4">>

NameSpace == <<"b", " ", "c">>

Request(file, name, factor, fps, bitrate) ==
  [file |-> file, originalname |-> name, factor |-> factor, fps |-> fps, bitrate |-> bitrate,
   protocol |-> <<"h", "t", "t", "p", "s">>, host |-> <<"x", ".", "i", "o">>]

\* multipart forms: no file part; a file and no text fields; a file and every field
Requests ==
  { Request(FALSE, <<>>, Undefined, Undefined, Undefined),
    Request(TRUE, NameMov, Undefined, Undefined, Undefined),
    Request(TRUE, NameSpace, <<"1", ".", "5">>, <<"3", "0">>, <<"5", "0", "0", "0", "0", "0", "0">>) }

\* two uploads that differ at most in the extension
SameNameRequests ==
  { Request(TRUE, NameMov, Undefined, Undefined, Undefined),
    Request(TRUE, NameMp4, Undefined, Undefined, Undefined) }

FactorFields ==
  { Undefined, <<>>, <<"1", ".", "5">>, <<"0", ".", "5">>, <<"2">>, <<"-", "3">>, <<"a", "b", "c">> }

FpsFields ==
  { Undefined, StrCopy, <<"3", "0">>, <<"0">>, <<"-", "5">>, <<"2", "4", ".", "5">>, <<"a", "b", "c">> }

BitrateFields ==
  { Undefined, <<>>, <<"5", "0", "0", "0", "0", "0", "0">>, <<"a", "b", "c">> }

FieldRequests ==
  { Request(TRUE, NameMov, f, p, b) : f \in FactorFields, p \in FpsFields, b \in BitrateFields }

\* what ffprobe may print on stdout, one chunk at a time
ProbeData == { <<"1", "0", ".", "0", "0", "\n">>, <<"N", "/", "A", "\n">> }

TimeChunk(m1, m2, s1, s2) ==
  <<"f", "p", "s", "=", "9", " ">> \o StrTime
  \o <<"0", "0", ":", m1, m2, ":", s1, s2, ".", "0", "0", " ">>

\* a chunk the pattern matches with a lone dot as its seconds: time=00:00:.
DotChunk == StrTime \o <<"0", "0", ":", "0", "0", ":", ".">>

\* what ffmpeg may print on stderr, one chunk at a time: 3 s, 5 s, 60 s, no
\* time, and text (echoed metadata) with seconds that are no number
EncoderData ==
  { TimeChunk("0", "0", "0", "3"), TimeChunk("0", "0", "0", "5"), TimeChunk("0", "1", "0", "0"),
    StrTime \o <<"N", "/", "A">>, DotChunk }

\* ffprobe printing a duration of d whole seconds
DurationChunk(d) == NatToStr(d) \o <<"\n">>

\* ffmpeg reporting t whole seconds of output: time=h:m:s
SecondsChunk(t) ==
  StrTime \o NatToStr(t \div 3600) \o <<":">> \o NatToStr((t % 3600) \div 60)
  \o <<":">> \o NatToStr(t % 60)

\* what the encoders of two concurrent jobs print: 3 s, 5 s
TwoJobData == { TimeChunk("0", "0", "0", "3"), TimeChunk("0", "0", "0", "5") }

\* exit codes: success, failure, killed by a signal (null)
ExitCodes == {Whole(0), Whole(1), Null}

\* --------------------------------------------------------- specifications

JobNext(j, Reqs, PData, EData) ==
  \/ \E r \in Reqs : UploadNoFile(j, r)
  \/ \E r \in Reqs : UploadMkdirThrows(j, r)
  \/ \E r \in Reqs, t \in 0..MaxClock : UploadProbeThrows(j, r, t)
  \/ \E r \in Reqs, t \in 0..MaxClock, started \in BOOLEAN : Upload(j, r, t, started)
  \/ \E d \in PData : ProbeStdout(j, d)
  \/ \E code \in ExitCodes : ProbeExit(j, code)
  \/ ProbeClose(j)
  \/ ProbeError(j)
  \/ \E started \in BOOLEAN : Transcode(j, started)
  \/ TranscodeThrows(j)
  \/ \E buf \in EData : FfStderr(j, buf)
  \/ \E code \in ExitCodes, wrote \in BOOLEAN : FfExit(j, code, wrote)
  \/ FfError(j)
  \/ FfClose(j)

\* one request at a time
Next == JobNext(1, Requests, ProbeData, EncoderData)

Spec == Init /\ [][Next]_vars

\* two requests in flight, each with a file part; the probe starts, nothing
\* throws synchronously, and the encoder succeeds or fails to spawn
NextTwo ==
  \E j \in Jobs :
    \/ \E r \in SameNameRequests, t \in 0..MaxClock : Upload(j, r, t, TRUE)
    \/ ProbeStdout(j, <<"1", "0", ".", "0", "0", "\n">>)
    \/ ProbeExit(j, Whole(0))
    \/ ProbeClose(j)
    \/ \E started \in BOOLEAN : Transcode(j, started)
    \/ \E buf \in TwoJobData : FfStderr(j, buf)
    \/ FfExit(j, Whole(0), TRUE)
    \/ FfError(j)
    \/ FfClose(j)

SpecTwo == Init /\ [][NextTwo]_vars

\* one request, every combination of the form fields, an uneventful encode
NextFields ==
  \/ \E r \in FieldRequests : Upload(1, r, 0, TRUE)
  \/ ProbeExit(1, Whole(0))
  \/ ProbeClose(1)
  \/ Transcode(1, TRUE)
  \/ FfExit(1, Whole(0), TRUE)
  \/ FfClose(1)

SpecFields == Init /\ [][NextFields]_vars

\* two requests in flight that read the same clock value: the probes succeed,
\* the encoders print, succeed or fail to spawn, in every interleaving
NextPair ==
  \E j \in Jobs :
    \/ \E r \in SameNameRequests : Upload(j, r, 0, TRUE)
    \/ ProbeStdout(j, <<"1", "0", ".", "0", "0", "\n">>)
    \/ ProbeExit(j, Whole(0))
    \/ ProbeClose(j)
    \/ \E started \in BOOLEAN : Transcode(j, started)
    \/ \E buf \in TwoJobData : FfStderr(j, buf)
    \/ FfExit(j, Whole(0), TRUE)
    \/ FfError(j)
    \/ FfClose(j)

SpecPair == Init /\ [][NextPair]_vars

\* one request whose probe reports a whole number of seconds and whose encoder
\* reports whole numbers of elapsed seconds
NextPct ==
  \/ \E r \in SameNameRequests : Upload(1, r, 0, TRUE)
  \/ \E d \in 1..MaxDur : ProbeStdout(1, DurationChunk(d))
  \/ ProbeExit(1, Whole(0))
  \/ ProbeClose(1)
  \/ Transcode(1, TRUE)
  \/ \E t \in 0..MaxElapsed : FfStderr(1, SecondsChunk(t))

SpecPct == Init /\ [][NextPct]_vars

\* the event loop delivers a pending 'error' or 'close' event of a child process
Fairness ==
  \A j \in Jobs :
    /\ WF_vars(ProbeError(j))
    /\ WF_vars(ProbeClose(j))
    /\ WF_vars(FfError(j))
    /\ WF_vars(FfClose(j))

FairSpec == Init /\ [][Next]_vars /\ Fairness

\* ------------------------------------------------------------ the claims

IsTerminal(l) == l.kind \in {"download", "status"}

IsProgress(l) == l.kind = "progress"

IsDownload(l) == l.kind = "download"

\* every line the handler of job j wrote with res.write, in order
Issued(j) == res[j].lines \o res[j].late

Terminals(j) == SelectSeq(Issued(j), IsTerminal)

ProgressLines(j) == SelectSeq(Issued(j), IsProgress)

\* the handler of job j will run no more: the catch block ran, or 'close' was handled
Finished(j) == pc[j] = "caught" \/ ff[j].st = "closed"

\* the argument that follows option opt
ArgAfter(args, opt) == args[(CHOOSE i \in 1..Len(args) : args[i] = opt) + 1]

HasArg(args, opt) == \E i \in 1..Len(args) : args[i] = opt

\* C1: when a job is over, the terminal lines written to its response are
\* exactly download + status:done, or exactly one status:error.
C1_OneTerminalResult ==
  \A j \in Jobs :
    Finished(j) =>
      \/ Terminals(j) = <<StatusError>>
      \/ /\ Len(Terminals(j)) = 2
         /\ IsDownload(Terminals(j)[1])
         /\ Terminals(j)[2] = StatusDone

\* C2: the response is ended at most once, only with a terminal line as its
\* last line, and nothing is written after it has been ended.
C2_NoWriteAfterEnd ==
  \A j \in Jobs :
    /\ res[j].ended <= 1
    /\ res[j].late = <<>>
    /\ res[j].ended >= 1 =>
         /\ res[j].lines # <<>>
         /\ res[j].lines[Len(res[j].lines)].kind = "status"

\* C3: the progress values written for one job are integers in [0,100] and
\* strictly increasing (non-decreasing and distinct).
C3_ProgressIncreasing ==
  \A j \in Jobs :
    LET p == ProgressLines(j)
    IN  /\ \A i \in 1..Len(p) :
             /\ parseInt(p[i].text).k = "num"
             /\ String(parseInt(p[i].text)) = p[i].text
             /\ parseInt(p[i].text).v >= 0
             /\ parseInt(p[i].text).v <= 10000
        /\ \A a, b \in 1..Len(p) : a < b => parseInt(p[a].text).v < parseInt(p[b].text).v

\* C4: when a job that uploaded a file is over, fs.unlink of its temporary
\* file has been called exactly once.
C4_UnlinkOnce ==
  \A j \in Jobs : (Finished(j) /\ req[j].file) => unlinks[j] = 1

\* C5: after 'close' with exit code 0 the terminal lines are download then
\* status:done and the response is ended; after 'close' with any other code, or
\* a failed spawn, every terminal line is status:error; a download line is
\* written only for exit code 0.
C5_ExitCodeDecides ==
  \A j \in Jobs :
    /\ (ff[j].st = "closed" /\ ff[j].code = Whole(0)) =>
         /\ Len(Terminals(j)) = 2
         /\ Terminals(j)[1] =
              DownloadLine(PublicUrl(req[j].protocol, req[j].host, scope[j].outBase))
         /\ Terminals(j)[2] = StatusDone
         /\ res[j].lines[Len(res[j].lines)] = StatusDone
         /\ res[j].ended >= 1
    /\ ((ff[j].st = "closed" /\ ff[j].code # Whole(0)) \/ ff[j].st = "errored") =>
         /\ Terminals(j) # <<>>
         /\ \A i \in 1..Len(Terminals(j)) : Terminals(j)[i] = StatusError
         /\ res[j].ended >= 1
    /\ (\E i \in 1..Len(Issued(j)) : IsDownload(Issued(j)[i])) =>
         (ff[j].st = "closed" /\ ff[j].code = Whole(0))

\* a job whose encoder printed, exited with 0 and was closed
C5_Witness ==
  \E j \in Jobs :
    /\ ff[j].st = "closed" /\ ff[j].code = Whole(0)
    /\ ProgressLines(j) # <<>>
    /\ Len(Terminals(j)) = 2

\* C6: with a probed duration of 0 no progress line is written, whatever the
\* encoder prints, and once the encoder has terminated (or failed to spawn) a
\* terminal line is eventually written.
C6_ZeroDuration ==
  \A j \in Jobs :
    /\ []((pc[j] = "listening" /\ scope[j].dur = Whole(0)) => ProgressLines(j) = <<>>)
    /\ (pc[j] = "listening" /\ scope[j].dur = Whole(0) /\ ff[j].st \in {"exited", "failing"})
         ~> (Terminals(j) # <<>>)

\* a job with duration 0 whose encoder printed every chunk it could, and closed
C6_Witness ==
  \E j \in Jobs :
    /\ scope[j].dur = Whole(0)
    /\ ff[j].st = "closed"
    /\ ff[j].n = MaxChunks
    /\ ProgressLines(j) = <<>>
    /\ Terminals(j) # <<>>

\* C7: two jobs that uploaded the same original filename and read the same
\* clock value hand different output paths to their encoders, and after both
\* succeeded each job's output file holds that job's output.
C7_DistinctOutputs ==
  \A i, j \in Jobs :
    (/\ i # j
     /\ pc[i] = "listening" /\ pc[j] = "listening"
     /\ req[i].originalname = req[j].originalname
     /\ scope[i].stamp = scope[j].stamp) =>
       /\ scope[i].args[Len(scope[i].args)] # scope[j].args[Len(scope[j].args)]
       /\ (ff[i].code = Whole(0) /\ ff[j].code = Whole(0) /\ ff[i].st = "closed" /\ ff[j].st = "closed") =>
            [name |-> scope[i].outBase, by |-> i] \in downloads

\* the number the filter expression scale=trunc(iw*<factor>/2)*2:... carries
FilterFactor(vf) == parseFloat(Drop(vf, 15))

\* C8: the scale factor in the encoder's filter expression is a number >= 1.
C8_FactorAtLeastOne ==
  \A j \in Jobs :
    pc[j] = "listening" =>
      LET f == FilterFactor(ArgAfter(scope[j].args, OptVf))
      IN  (f.k = "num" /\ f.v >= 100) \/ (f.k = "inf" /\ f.v > 0)

\* a decimal integer literal: an optional sign and digits
IsInteger(s) ==
  /\ s # Undefined
  /\ LET d == IF s # <<>> /\ Head(s) \in {"-", "+"} THEN Tail(s) ELSE s
     IN  d # <<>> /\ RunLen(d, DigitSet) = Len(d)

IntegerValue(s) ==
  IF Head(s) = "-" THEN 0 - DigitsVal(Tail(s))
  ELSE IF Head(s) = "+" THEN DigitsVal(Tail(s))
  ELSE DigitsVal(s)

\* C9: the bitrate argument is the field's value when the field is an integer
\* and 8000000 when the field is missing or is not an integer.
C9_BitrateDefault ==
  \A j \in Jobs :
    pc[j] = "listening" =>
      ArgAfter(scope[j].args, OptBv) =
        IF IsInteger(req[j].bitrate) THEN String(Whole(IntegerValue(req[j].bitrate)))
        ELSE DefaultBitrate

\* C10: the arguments hold -r <n> exactly when the fps field is a positive
\* integer n.
C10_FpsOverride ==
  \A j \in Jobs :
    pc[j] = "listening" =>
      IF IsInteger(req[j].fps) /\ IntegerValue(req[j].fps) > 0
      THEN /\ HasArg(scope[j].args, OptR)
           /\ ArgAfter(scope[j].args, OptR) = String(Whole(IntegerValue(req[j].fps)))
      ELSE ~HasArg(scope[j].args, OptR)

\* C11: the promise of probeDuration is never rejected and is settled once the
\* probe has closed; its value is a number >= 0, and it is 0 when the probe
\* failed to start, exited with a code other than 0 (whatever it printed), or
\* printed something that does not parse to a finite number.
C11_ProbeZeroOnFailure ==
  \A j \in Jobs :
    /\ promise[j].state # "rejected"
    /\ probe[j].st = "closed" => promise[j].state = "resolved"
    /\ promise[j].state = "resolved" =>
         /\ promise[j].value.k = "num"
         /\ promise[j].value.v >= 0
         /\ probe[j].st = "errored" => promise[j].value = Whole(0)
         /\ (probe[j].st = "closed" /\ probe[j].code # Whole(0)) => promise[j].value = Whole(0)
         /\ (probe[j].st = "closed" /\ ~isFinite(parseFloat(Trim(probe[j].out)))) =>
              promise[j].value = Whole(0)

\* C12: the encoder of a job exists only once the job's probe is over (closed,
\* or failed to spawn) and its promise is resolved: the probe and the encoder
\* of one job are never both running, and a job has no progress line while its
\* promise is unresolved.
C12_ProbeBeforeEncoder ==
  \A j \in Jobs :
    /\ ~(probe[j].st = "running" /\ ff[j].st = "running")
    /\ ff[j].st # "none" =>
         /\ probe[j].st \in {"closed", "errored"}
         /\ promise[j].state = "resolved"
    /\ ProgressLines(j) # <<>> => promise[j].state = "resolved"

\* a job whose probe closed, whose encoder is running and has had progress written
C12_Witness ==
  \E j \in Jobs :
    /\ probe[j].st = "closed"
    /\ ff[j].st = "running"
    /\ ProgressLines(j) # <<>>

\* C13: once the catch block of a job has run (no file part, mkdirSync threw,
\* a spawn threw) the only line ever written to its response is one
\* status:error, the response was ended once, fs.unlink was called once when
\* there is a file and not at all when there is none, and no encoder exists.
C13_CaughtIsOneError ==
  \A j \in Jobs :
    pc[j] = "caught" =>
      /\ Issued(j) = <<StatusError>>
      /\ res[j].lines = <<StatusError>>
      /\ res[j].ended = 1
      /\ unlinks[j] = IF req[j].file THEN 1 ELSE 0
      /\ j \notin tmp
      /\ ff[j].st = "none"

\* the catch block ran without a file part, so its own unlink line threw
C13_Witness ==
  \E j \in Jobs :
    /\ pc[j] = "caught"
    /\ ~req[j].file
    /\ res[j].ended = 1

\* C14: while the encoder of a job is running, or has terminated with its
\* 'close' event still pending, fs.unlink of the job's upload has not been
\* called and the file is on disk: an unlink has happened only with the encoder
\* closed, failed to spawn, or never started.
C14_NoUnlinkWhileEncoding ==
  \A j \in Jobs :
    /\ ff[j].st \in {"running", "exited"} => (unlinks[j] = 0 /\ j \in tmp)
    /\ unlinks[j] > 0 => ff[j].st \in {"closed", "errored", "none"}

\* an encoder that ran, exited and was closed, after which the upload was deleted
C14_Witness ==
  \E j \in Jobs :
    /\ ff[j].st = "closed"
    /\ ff[j].code \in ExitCodes
    /\ unlinks[j] = 1
    /\ j \notin tmp

\* the text of the last progress line written for job j, <<>> when there is none
LastWritten(j) ==
  IF ProgressLines(j) = <<>> THEN <<>> ELSE ProgressLines(j)[Len(ProgressLines(j))].text

\* C15: each stderr chunk delivered to a job writes one progress line, carrying
\* the percentage computed from the chunk, if and only if the chunk holds a
\* time marker, the duration is > 0 and that percentage is not the one last
\* written for the job; it writes nothing else, two consecutive progress lines
\* never carry the same value, and of the handler's locals only lastPct changes.
C15_ProgressIffChanged ==
  [][\A j \in Jobs : \A buf \in EncoderData :
       FfStderr(j, buf) =>
         LET m   == MatchTime(buf)
             pct == Pct(Elapsed(m), scope[j].dur)
             due == /\ m.ok
                    /\ scope[j].dur.k = "num" /\ scope[j].dur.v > 0
                    /\ String(pct) # LastWritten(j)
         IN  /\ due => Issued(j)' = Append(Issued(j), ProgressLine(pct))
             /\ ~due => Issued(j)' = Issued(j)
             /\ \A i \in 1..(Len(ProgressLines(j)') - 1) :
                  ProgressLines(j)'[i].text # ProgressLines(j)'[i + 1].text
             /\ scope' = [scope EXCEPT ![j].lastPct = scope'[j].lastPct]
    ]_vars

\* floor(clamp(t / d, 0, 1) * 100) for integers t and d > 0
SpecifiedPct(t, d) ==
  IF t >= d THEN 100 ELSE IF t <= 0 THEN 0 ELSE (t * 100) \div d

\* C16: for every elapsed time t in 0..MaxElapsed and duration d in 1..MaxDur
\* the handler's Math.max(0, Math.min(100, Math.floor(t / d * 100))) equals
\* floor(clamp(t / d, 0, 1) * 100) and lies in [0, 100]; and after every chunk
\* reporting t seconds to a job with duration d, lastPct is that value.
C16_PctAsSpecified ==
  /\ [](\A t \in 0..MaxElapsed, d \in 1..MaxDur :
          /\ Pct(Whole(t), Whole(d)) = Whole(SpecifiedPct(t, d))
          /\ Pct(Whole(t), Whole(d)).v >= 0
          /\ Pct(Whole(t), Whole(d)).v <= Whole(100).v)
  /\ [][\A t \in 0..MaxElapsed, d \in 1..MaxDur :
          (scope[1].dur = Whole(d) /\ FfStderr(1, SecondsChunk(t))) =>
            /\ scope'[1].lastPct = Whole(SpecifiedPct(t, d))
            /\ ProgressLines(1)' # <<>>
            /\ ProgressLines(1)'[Len(ProgressLines(1)')].text = NatToStr(SpecifiedPct(t, d))
       ]_vars

\* a job of duration 3 s whose encoder reported 1 s and then at least 3 s
C16_Witness ==
  /\ scope[1].dur = Whole(3)
  /\ Len(ProgressLines(1)) = 2
  /\ ProgressLines(1)[1].text = <<"3", "3">>
  /\ ProgressLines(1)[2].text = <<"1", "0", "0">>

\* everything the handler of job j and its two child processes hold
Local(j) == <<req[j], pc[j], scope[j], probe[j], promise[j], ff[j], res[j], unlinks[j]>>

\* a job running alone: its stderr handler applied to the chunks, in order
RECURSIVE SoloData(_, _, _)
SoloData(sc, r, chunks) ==
  IF chunks = <<>> THEN [lastPct |-> sc.lastPct, res |-> r]
  ELSE LET o == OnData(sc, r, Head(chunks))
       IN  SoloData([sc EXCEPT !.lastPct = o.lastPct], o.res, Tail(chunks))

\* the terminal lines of a job running alone, from the events of its own encoder
SoloTerminals(j) ==
  LET url == PublicUrl(req[j].protocol, req[j].host, scope[j].outBase)
  IN  IF ff[j].st = "errored" THEN <<StatusError>>
      ELSE IF ff[j].st = "closed"
      THEN (IF ff[j].code = SpawnErrno THEN <<StatusError>> ELSE <<>>) \o CloseLines(ff[j].code, url)
      ELSE <<>>

\* C17: with two jobs in flight a step changes the handler state of one job
\* only (request, locals with lastPct, processes, promise, response, unlinks),
\* and every line written to a job's response is what that job writes when it
\* runs alone on the chunks and events of its own encoder.
C17_JobsIndependent ==
  /\ [][\A i, j \in Jobs : (i # j /\ Local(j)' # Local(j)) => Local(i)' = Local(i)]_vars
  /\ [](\A j \in Jobs :
          pc[j] = "listening" =>
            \E cs \in [1..ff[j].n -> TwoJobData] :
              LET solo == SoloData([scope[j] EXCEPT !.lastPct = Whole(-1)], NewRes, cs)
              IN  /\ scope[j].lastPct = solo.lastPct
                  /\ Issued(j) = solo.res.lines \o SoloTerminals(j))

\* both jobs encoding at once, each with progress written, one ahead of the other
C17_Witness ==
  /\ ff[1].st = "running" /\ ff[2].st = "running"
  /\ Len(ProgressLines(1)) = 2
  /\ Len(ProgressLines(2)) = 1
  /\ scope[1].lastPct # scope[2].lastPct

\* the names of the files in the downloads directory
DownloadNames == {f.name : f \in downloads}

\* C18: no step removes a file from the downloads directory; once an encoder
\* that exited with 0 is closed its output file is there; and when a job with a
\* file is over its temporary upload is gone.
C18_DownloadsKept ==
  /\ [][DownloadNames \subseteq DownloadNames']_vars
  /\ [](\A j \in Jobs :
          /\ (ff[j].st = "closed" /\ ff[j].code = Whole(0)) => scope[j].outBase \in DownloadNames
          /\ (Finished(j) /\ req[j].file) => j \notin tmp)

\* an encoder that failed with exit code 1 and was closed: its partial output
\* is in the downloads directory and the upload is gone
C18_Witness ==
  \E j \in Jobs :
    /\ ff[j].st = "closed"
    /\ ff[j].code = Whole(1)
    /\ scope[j].outBase \in DownloadNames
    /\ j \notin tmp
====
